---- MODULE Spec2Model ----
(***************************************************************************)
(* Model of kotoba-js: the tag reconciler `mergeTags` (the importer        *)
(* script) and the archive importer `importSource` (src/import.ts).        *)
(*                                                                         *)
(* mergeTags is modelled one mapTag call per step.  The dictionaries of    *)
(* the input list are drawn when the outer loop reaches them; the          *)
(* references of a dictionary are drawn when the rewriting loops reach     *)
(* them (the code reads each exactly once, in order).                      *)
(***************************************************************************)
EXTENDS Integers, Sequences, FiniteSets, TLC

(***************************************************************************)
(* Bounds of the model.                                                    *)
(***************************************************************************)
MaxSteps == 4      \* mapTag calls plus skipped dictionaries of one mergeTags
MaxTags == 2       \* length of one dictionary's tag list

(***************************************************************************)
(* Values.  Strings are TLA+ strings; "" is the empty (falsy) string and   *)
(* 0 the falsy number.                                                     *)
(***************************************************************************)
Names == {"", "a", "a-2"}
Categories == {"", "x", "y"}
Descriptions == {"", "p", "q"}
Orders == {0, 1, 2}
Scores == {0, 1, 2}

Tag(n, c, d, o, s) ==
    [name |-> n, category |-> c, description |-> d, order |-> o, score |-> s]

\* Tag definitions that differ in the category only, over every name.
NameTags == {Tag(n, c, "", 0, 0) : n \in Names, c \in Categories}

Fields == {"category", "description", "order", "score"}

EmptyValue(f) == IF f \in {"category", "description"} THEN "" ELSE 0

FieldNames == {"a"}

\* Tag definitions of one name over every field: every combination of values
\* of any two fields, the other fields empty.
FieldTags ==
    {t \in {Tag(n, c, d, o, s) : n \in FieldNames,
                c \in Categories, d \in Descriptions, o \in Orders, s \in Scores} :
        \E f, g \in Fields : \A h \in Fields \ {f, g} : t[h] = EmptyValue(h)}

SeqsUpTo(S, n) == UNION {[1..k -> S] : k \in 0..n}

\* dict.tags of the dictionaries: the two input families.
Min(a, b) == IF a < b THEN a ELSE b

NameTagLists(n) == SeqsUpTo(NameTags, Min(n, MaxTags))
FieldTagLists(n) == {<<t>> : t \in FieldTags}

VARIABLES
    \* mergeTags
    tags,        \* Map<string, Tag>: the shared namespace (line 160)
    tagUsage,    \* Map<string, number> (line 161)
    pc,          \* position in mergeTags
    steps,       \* mapTag calls made and dictionaries skipped so far
    dictTags,    \* dict.tags of the current dictionary
    mapped,      \* Map<string, string>: mapping of the current dictionary
    i,           \* index of the pass-1 loop over dict.tags
    statKeys,    \* keys of it.stats already visited, current kanji
    mappedStats, \* keys of mappedStats, current kanji
    written,     \* IDs stored into reference fields by the rewriting
    unmapped,    \* names left in the reference fields of skipped dictionaries
    last,        \* the last mapTag call: name, used, returned id, repeated name
    returned,    \* name -> the ID its first mapTag call returned, current dictionary
    defIds,      \* IDs the pass-1 calls returned
    \* importSource
    list,        \* Object.keys(source.list), in the order of the listing
    indexListed, \* source.list['index.json'] is truthy
    pcI,         \* position in importSource
    reads,       \* the names source.file was called with, in call order
    pending,     \* reads issued and not yet completed
    index,       \* the parsed index: its format field
    files,       \* the classified, sorted bank files
    at,          \* position of the loop over files
    dict,        \* the Dictionary under construction
    contents,    \* bank file name -> the rows its read delivered
    result       \* what the call returned or raised

mergeVars == <<tags, tagUsage, pc, steps, dictTags, mapped, i,
               statKeys, mappedStats, written, unmapped, last, returned, defIds>>

importVars == <<list, indexListed, pcI, reads, pending, index, files, at, dict,
                contents, result>>

vars == <<mergeVars, importVars>>

(***************************************************************************)
(* Maps.                                                                   *)
(***************************************************************************)
EmptyMap == <<>>

Put(m, k, v) == [x \in DOMAIN m \cup {k} |-> IF x = k THEN v ELSE m[x]]

\* tagUsage.get(key) || 0
UsageOf(usage, key) == IF key \in DOMAIN usage THEN usage[key] ELSE 0

\* line 173
useTag(usage, tagName) == Put(usage, tagName, UsageOf(usage, tagName) + 1)

\* line 181: { name: tagName, description: '', category: '', order: 0, score: 0 }
EmptyTag(tagName) == Tag(tagName, "", "", 0, 0)

\* line 171: new Map(dict.tags.map(x => [x.name, x])): the last definition wins
RECURSIVE byNameGet(_, _, _)
byNameGet(ts, tagName, k) ==
    IF k = 0 THEN EmptyTag(tagName)
    ELSE IF ts[k].name = tagName THEN ts[k]
    ELSE byNameGet(ts, tagName, k - 1)

\* line 181: byName.get(tagName) || { ... }
Candidate(ts, tagName) == byNameGet(ts, tagName, Len(ts))

\* A canMerge without the empty wildcard: both fields must be equal.
canMergeSameOnly(tag, current) ==
    /\ tag.category = current.category
    /\ tag.description = current.description

\* A canMerge that looks at the category alone.
canMergeCategoryOnly(tag, current) ==
    tag.category = current.category \/ tag.category = "" \/ current.category = ""

\* lines 197-201
canMerge(tag, current) ==
    /\ (tag.category = current.category \/ tag.category = "" \/ current.category = "")
    /\ (tag.description = current.description \/ tag.description = ""
            \/ current.description = "")

\* A merge that takes the order of the candidate when it has one.
mergeIntoOverwrite(current, tag) ==
    [current EXCEPT
        !.category = IF current.category # "" THEN current.category ELSE tag.category,
        !.description = IF current.description # "" THEN current.description
                        ELSE tag.description,
        !.order = IF tag.order # 0 THEN tag.order ELSE current.order,
        !.score = IF current.score # 0 THEN current.score ELSE tag.score]

\* lines 204-207: x ||= y
mergeInto(current, tag) ==
    [current EXCEPT
        !.category = IF current.category # "" THEN current.category ELSE tag.category,
        !.description = IF current.description # "" THEN current.description
                        ELSE tag.description,
        !.order = IF current.order # 0 THEN current.order ELSE tag.order,
        !.score = IF current.score # 0 THEN current.score ELSE tag.score]

\* line 218: `${tagName}-${counter}`
suffixed(tagName, counter) == tagName \o "-" \o ToString(counter)

\* line 185
firstCounter == 1

\* lines 186-219: the probing loop; returns the id and the namespace after it
RECURSIVE probe(_, _, _, _, _)
probe(ns, tag, tagName, counter, id) ==
    IF id \notin DOMAIN ns
    THEN [id |-> id, tags |-> Put(ns, id, tag)]
    ELSE IF canMerge(tag, ns[id])
    THEN [id |-> id, tags |-> [ns EXCEPT ![id] = mergeInto(ns[id], tag)]]
    ELSE probe(ns, tag, tagName, counter + 1, suffixed(tagName, counter + 1))

\* lines 175-176: const mappedId = mapped.get(tagName); if (mappedId)
cacheHit(mp, tagName) == tagName \in DOMAIN mp /\ mp[tagName] # ""

\* A cache that answers with the name in place of the ID it holds.
cachedIdName(mp, tagName) == tagName

\* line 178: return mappedId
cachedId(mp, tagName) == mp[tagName]

\* lines 174-220
mapTag(ns, usage, mp, ts, tagName, used) ==
    IF cacheHit(mp, tagName)
    THEN LET id == cachedId(mp, tagName) IN
         [id |-> id, tags |-> ns, mapped |-> mp,
          tagUsage |-> IF used THEN useTag(usage, id) ELSE usage]
    ELSE LET r == probe(ns, Candidate(ts, tagName), tagName, firstCounter, tagName) IN
         [id |-> r.id, tags |-> r.tags, mapped |-> Put(mp, tagName, r.id),
          tagUsage |-> IF used THEN useTag(usage, r.id) ELSE usage]

NoCall == [name |-> "", used |-> FALSE, id |-> "", again |-> FALSE]

InitMerge ==
    /\ tags = EmptyMap
    /\ tagUsage = EmptyMap
    /\ pc = "loop"
    /\ steps = 0
    /\ dictTags = <<>>
    /\ mapped = EmptyMap
    /\ i = 0
    /\ statKeys = {}
    /\ mappedStats = {}
    /\ written = {}
    /\ unmapped = {}
    /\ last = NoCall
    /\ returned = EmptyMap
    /\ defIds = {}

\* The state change of one mapTag(tagName, used) call.
Call(tagName, used) ==
    LET r == mapTag(tags, tagUsage, mapped, dictTags, tagName, used) IN
    /\ steps < MaxSteps
    /\ steps' = steps + 1
    /\ tags' = r.tags
    /\ tagUsage' = r.tagUsage
    /\ mapped' = r.mapped
    /\ last' = [name |-> tagName, used |-> used, id |-> r.id,
                again |-> tagName \in DOMAIN returned]
    /\ returned' = IF tagName \in DOMAIN returned THEN returned
                   ELSE Put(returned, tagName, r.id)

\* lines 162-165: a dictionary without tags is skipped; its references stay
SkipDict(refs) ==
    /\ pc = "loop"
    /\ steps < MaxSteps
    /\ steps' = steps + 1
    /\ unmapped' = unmapped \cup refs
    /\ UNCHANGED <<tags, tagUsage, pc, dictTags, mapped, i, statKeys,
                   mappedStats, written, last, returned, defIds>>
    /\ UNCHANGED importVars

\* lines 162, 171-172: the next dictionary, with a fresh local mapping
StartDict(ts) ==
    /\ pc = "loop"
    /\ Len(ts) > 0
    /\ steps + Len(ts) <= MaxSteps
    /\ dictTags' = ts
    /\ mapped' = EmptyMap
    /\ i' = 1
    /\ statKeys' = {}
    /\ mappedStats' = {}
    /\ pc' = "pass1"
    /\ UNCHANGED <<tags, tagUsage, steps, written, unmapped, last, returned, defIds>>
    /\ UNCHANGED importVars

\* lines 225-227
Pass1 ==
    /\ pc = "pass1"
    /\ Call(dictTags[i].name, FALSE)
    /\ defIds' = defIds \cup {last'.id}
    /\ i' = i + 1
    /\ pc' = IF i = Len(dictTags) THEN "terms" ELSE "pass1"
    /\ UNCHANGED <<dictTags, statKeys, mappedStats, written, unmapped>>
    /\ UNCHANGED importVars

\* lines 233-237: one element of term_tags, definition_tags or rules
RewriteTerm(x) ==
    /\ pc = "terms"
    /\ Call(x, TRUE)
    /\ written' = written \cup {last'.id}
    /\ UNCHANGED <<pc, dictTags, i, statKeys, mappedStats, unmapped, defIds>>
    /\ UNCHANGED importVars

\* line 241: one element of a kanji's tags (before its stats are visited)
RewriteKanjiTag(x) ==
    /\ pc \in {"terms", "kanji"}
    /\ statKeys = {}
    /\ Call(x, TRUE)
    /\ written' = written \cup {last'.id}
    /\ pc' = "kanji"
    /\ UNCHANGED <<dictTags, i, statKeys, mappedStats, unmapped, defIds>>
    /\ UNCHANGED importVars

\* lines 243-247: one key of a kanji's stats
RewriteKanjiStat(key) ==
    /\ pc \in {"terms", "kanji"}
    /\ key \notin statKeys
    /\ Call(key, TRUE)
    /\ statKeys' = statKeys \cup {key}
    /\ mappedStats' = mappedStats \cup {last'.id}
    /\ written' = written \cup {last'.id}
    /\ pc' = "kanji"
    /\ UNCHANGED <<dictTags, i, unmapped, defIds>>
    /\ UNCHANGED importVars

\* line 240: the next kanji of the dictionary
NextKanji ==
    /\ pc = "kanji"
    /\ statKeys # {}
    /\ statKeys' = {}
    /\ mappedStats' = {}
    /\ UNCHANGED <<tags, tagUsage, pc, steps, dictTags, mapped, i, written,
                   unmapped, last, returned, defIds>>
    /\ UNCHANGED importVars

\* line 249: the end of the loop body; the locals of the body go out of scope
EndDict ==
    /\ pc \in {"terms", "kanji"}
    /\ pc' = "loop"
    /\ dictTags' = <<>>
    /\ mapped' = EmptyMap
    /\ i' = 0
    /\ statKeys' = {}
    /\ mappedStats' = {}
    /\ last' = NoCall
    /\ returned' = EmptyMap
    /\ UNCHANGED <<tags, tagUsage, steps, written, unmapped, defIds>>
    /\ UNCHANGED importVars

\* line 253
isEmpty(args, val) ==
    args.deleteEmpty
    /\ ~(val.category # "" \/ val.description # "" \/ val.order # 0 \/ val.score # 0)

\* line 255
isUnused(args, usage, key) == args.deleteUnused /\ UsageOf(usage, key) = 0

\* lines 251-261
Cleanup(args) ==
    /\ pc = "loop"
    /\ tags' = [key \in {k \in DOMAIN tags :
                            ~(isEmpty(args, tags[k]) \/ isUnused(args, tagUsage, k))}
                    |-> tags[key]]
    /\ pc' = IF args.deleteUnused THEN (IF args.deleteEmpty THEN "doneUE" ELSE "doneU")
             ELSE (IF args.deleteEmpty THEN "doneE" ELSE "done")
    /\ UNCHANGED <<tagUsage, steps, dictTags, mapped, i, statKeys,
                   mappedStats, written, unmapped, last, returned, defIds>>
    /\ UNCHANGED importVars

Args == [deleteUnused : BOOLEAN, deleteEmpty : BOOLEAN]

(***************************************************************************)
(* importSource (src/import.ts).                                           *)
(*                                                                         *)
(* A bank row is modelled by its arity n and one value v carried by every  *)
(* cell; a cell past the end of the row is undefined.                      *)
(***************************************************************************)
MaxFiles == 3      \* entries of the source listing, importSource
MaxRows == 2       \* rows delivered by all the reads of one importSource
MaxListed == 3     \* entries of the source listing, classification alone

INDEX_NAME == "index.json"
FORMAT == 3

\* Names of the listings of a whole import.
ImportNames ==
    {"index.json", "kanji_bank_1.json", "tag_bank_1.json", "tag_bank_2.json",
     "term_bank_1.json", "term_meta_bank_1.json", "notes.txt"}

\* Names of the listings the classification is tried on.
ClassifyNames ==
    {"index.json", "tag_bank_2.json", "tag_bank_10.json", "tag_bank_1.json",
     "tag_bank_01.json", "term_bank_1.json", "term_meta_bank_1.json",
     "kanji_bank_3.json", "kanji_meta_bank_2.json", "tag_bank_.json",
     "xtag_bank_1.json", "tag_bank_1.json.bak", "tag_bank_1a.json"}

\* Sequences of distinct elements of S, at most n long.
Listings(S, n) ==
    {l \in SeqsUpTo(S, n) : \A a, b \in 1..Len(l) : a # b => l[a] # l[b]}

\* The rows the reads deliver: each has the arity of one kind (3, 5, 6 or 8
\* columns) and so is too short or too long for the other kinds.
Rows ==
    {[n |-> 3, v |-> 2], [n |-> 5, v |-> 1], [n |-> 5, v |-> 2],
     [n |-> 6, v |-> 1], [n |-> 8, v |-> 1]}

Formats ==
    {[t |-> "number", v |-> 3], [t |-> "number", v |-> 2], [t |-> "number", v |-> 4],
     [t |-> "string", v |-> 3], [t |-> "undefined", v |-> 0]}
Unread == [t |-> "unread", v |-> 0]

Range(q) == {q[j] : j \in 1..Len(q)}

(***************************************************************************)
(* Strings: characters, prefixes, decimal numbers, localeCompare.          *)
(***************************************************************************)
CharAt(str, j) == SubSeq(str, j, j)

StartsWith(str, pre) == Len(str) >= Len(pre) /\ SubSeq(str, 1, Len(pre)) = pre

EndsWith(str, suf) ==
    Len(str) >= Len(suf) /\ SubSeq(str, Len(str) - Len(suf) + 1, Len(str)) = suf

\* \d
IsDigit(c) == \E d \in 0..9 : ToString(d) = c

DigitValue(c) == CHOOSE d \in 0..9 : ToString(d) = c

\* \d+
AllDigits(str) == Len(str) > 0 /\ \A j \in 1..Len(str) : IsDigit(CharAt(str, j))

\* line 194: parseInt(m[2], 10) of a string of decimal digits
RECURSIVE parseInt(_)
parseInt(str) ==
    IF Len(str) = 0 THEN 0
    ELSE 10 * parseInt(SubSeq(str, 1, Len(str) - 1)) + DigitValue(CharAt(str, Len(str)))

\* The collation order of the characters that occur (punctuation, digits,
\* letters).
Collation == "._0123456789abcdefghijklmnopqrstuvwxyz"

CharRank(c) == CHOOSE r \in 1..Len(Collation) : CharAt(Collation, r) = c

\* String.prototype.localeCompare: negative, zero or positive
RECURSIVE localeCompare(_, _)
localeCompare(a, b) ==
    IF Len(a) = 0 /\ Len(b) = 0 THEN 0
    ELSE IF Len(a) = 0 THEN -1
    ELSE IF Len(b) = 0 THEN 1
    ELSE IF CharRank(Head(a)) < CharRank(Head(b)) THEN -1
    ELSE IF CharRank(Head(a)) > CharRank(Head(b)) THEN 1
    ELSE localeCompare(Tail(a), Tail(b))

(***************************************************************************)
(* Lines 192-200: the classification of the listing.                       *)
(***************************************************************************)
Kinds == {"term", "kanji", "tag", "term_meta", "kanji_meta"}

\* line 193: /^(term|kanji|tag|term_meta|kanji_meta)_bank_(\d+)\.json$/
MatchesKind(name, kind) ==
    LET pre == kind \o "_bank_"
        suf == ".json"
    IN /\ StartsWith(name, pre)
       /\ EndsWith(name, suf)
       /\ Len(name) > Len(pre) + Len(suf)
       /\ AllDigits(SubSeq(name, Len(pre) + 1, Len(name) - Len(suf)))

IsBankName(name) == \E kind \in Kinds : MatchesKind(name, kind)

\* lines 192-195 (for a name that matches)
splitName(name) ==
    LET kind == CHOOSE kd \in Kinds : MatchesKind(name, kd)
        pre == kind \o "_bank_"
    IN [kind |-> kind, file |-> name,
        index |-> parseInt(SubSeq(name, Len(pre) + 1, Len(name) - Len(".json")))]

\* line 200: the comparator of the sort
compareFiles(a, b) ==
    IF a.kind # b.kind THEN localeCompare(a.kind, b.kind) ELSE a.index - b.index

\* line 267: the comparator of the sort of dict.tags; NaN counts as 0
compareTags(a, b) ==
    IF a.order # b.order
    THEN (IF a.order.def /\ b.order.def THEN a.order.val - b.order.val ELSE 0)
    ELSE a.name.val - b.name.val

\* The comparator a sort is called with.
compare(cmp, a, b) == IF cmp = "files" THEN compareFiles(a, b) ELSE compareTags(a, b)

\* Array.prototype.sort with the comparator cmp is stable: x goes after the
\* elements not above it.
RECURSIVE insertSorted(_, _, _)
insertSorted(cmp, q, x) ==
    IF q = <<>> THEN <<x>>
    ELSE IF compare(cmp, q[Len(q)], x) <= 0 THEN Append(q, x)
    ELSE Append(insertSorted(cmp, SubSeq(q, 1, Len(q) - 1), x), q[Len(q)])

RECURSIVE sortBy(_, _)
sortBy(cmp, q) ==
    IF q = <<>> THEN <<>>
    ELSE insertSorted(cmp, sortBy(cmp, SubSeq(q, 1, Len(q) - 1)), q[Len(q)])

\* lines 197-200
classify(names) ==
    sortBy("files",
           [j \in 1..Len(SelectSeq(names, IsBankName))
               |-> splitName(SelectSeq(names, IsBankName)[j])])

(***************************************************************************)
(* Lines 204-265: decoding the rows of one bank file.                      *)
(***************************************************************************)
Undefined == [def |-> FALSE, val |-> 0]

\* row[c], c counted from 0
Cell(row, c) == IF c < row.n THEN [def |-> TRUE, val |-> row.v] ELSE Undefined

\* The columns a row of the kind is destructured into.
Columns(kind) ==
    CASE kind = "term" -> 8
      [] kind = "kanji" -> 6
      [] kind = "tag" -> 5
      [] OTHER -> 3

\* line 202: the columns given to csv(); input.split throws on undefined
CsvColumns(kind) ==
    CASE kind = "term" -> {2, 3, 7}
      [] kind = "kanji" -> {1, 2, 3}
      [] OTHER -> {}

rowThrows(kind, row) == \E c \in CsvColumns(kind) : ~Cell(row, c).def

\* lines 209-219, 225-233, 239-246, 255-260: the record pushed for a row
decode(kind, row) ==
    CASE kind = "term" ->
            [expression |-> Cell(row, 0), reading |-> Cell(row, 1),
             definition_tags |-> Cell(row, 2), rules |-> Cell(row, 3),
             score |-> Cell(row, 4), glossary |-> Cell(row, 5),
             sequence |-> Cell(row, 6), term_tags |-> Cell(row, 7)]
      [] kind = "kanji" ->
            [character |-> Cell(row, 0), onyomi |-> Cell(row, 1),
             kunyomi |-> Cell(row, 2), tags |-> Cell(row, 3),
             meanings |-> Cell(row, 4), stats |-> Cell(row, 5)]
      [] kind = "tag" ->
            [name |-> Cell(row, 0), category |-> Cell(row, 1), order |-> Cell(row, 2),
             description |-> Cell(row, 3), score |-> Cell(row, 4)]
      [] OTHER ->
            [expression |-> Cell(row, 0), mode |-> Cell(row, 1), data |-> Cell(row, 2)]

\* lines 207, 223, 237, 250-253: the list of the Dictionary a kind fills
ListOf(kind) ==
    CASE kind = "term" -> "terms"
      [] kind = "kanji" -> "kanji"
      [] kind = "tag" -> "tags"
      [] kind = "term_meta" -> "terms_meta"
      [] OTHER -> "kanji_meta"

\* lines 208-264, one file: the rows are pushed in order until one throws
RECURSIVE pushRows(_, _, _, _)
pushRows(d, kind, rows, j) ==
    IF j > Len(rows) THEN [dict |-> d, threw |-> FALSE]
    ELSE IF rowThrows(kind, rows[j]) THEN [dict |-> d, threw |-> TRUE]
    ELSE pushRows([d EXCEPT ![ListOf(kind)] = Append(@, decode(kind, rows[j]))],
                  kind, rows, j + 1)

\* lines 173-180
EmptyDict == [terms |-> <<>>, kanji |-> <<>>, tags |-> <<>>, terms_meta |-> <<>>,
              kanji_meta |-> <<>>]

NoResult == [kind |-> "none"]

\* line 164
hasIndex(names, listed) == INDEX_NAME \in Range(names) /\ listed

\* A format check with != in place of !==.
formatOkLoose(fmt) == fmt.t \in {"number", "string"} /\ fmt.v = FORMAT

\* line 169: index.format !== FORMAT
formatOk(fmt) == fmt.t = "number" /\ fmt.v = FORMAT

RECURSIVE SumRows(_, _)
SumRows(c, S) ==
    IF S = {} THEN 0
    ELSE LET f == CHOOSE f \in S : TRUE IN Len(c[f]) + SumRows(c, S \ {f})

RowsRead == SumRows(contents, DOMAIN contents)

ImportIdle ==
    /\ list = <<>>
    /\ indexListed = FALSE
    /\ pcI = "idle"
    /\ reads = <<>>
    /\ pending = {}
    /\ index = Unread
    /\ files = <<>>
    /\ at = 0
    /\ dict = EmptyDict
    /\ contents = EmptyMap
    /\ result = NoResult

MergeIdle ==
    /\ tags = EmptyMap
    /\ tagUsage = EmptyMap
    /\ pc = "idle"
    /\ steps = 0
    /\ dictTags = <<>>
    /\ mapped = EmptyMap
    /\ i = 0
    /\ statKeys = {}
    /\ mappedStats = {}
    /\ written = {}
    /\ unmapped = {}
    /\ last = NoCall
    /\ returned = EmptyMap
    /\ defIds = {}

ImportStart(names) ==
    /\ list \in Listings(names, MaxFiles)
    /\ indexListed \in BOOLEAN
    /\ pcI = "start"
    /\ reads = <<>>
    /\ pending = {}
    /\ index = Unread
    /\ files = <<>>
    /\ at = 0
    /\ dict = EmptyDict
    /\ contents = EmptyMap
    /\ result = NoResult

InitImport == MergeIdle /\ ImportStart(ImportNames)

InitClassify ==
    /\ MergeIdle
    /\ list \in Listings(ClassifyNames, MaxListed)
    /\ indexListed = TRUE
    /\ pcI = "start"
    /\ reads = <<>>
    /\ pending = {}
    /\ index = Unread
    /\ files = <<>>
    /\ at = 0
    /\ dict = EmptyDict
    /\ contents = EmptyMap
    /\ result = NoResult

\* lines 164-168: the check of the listing and the read of the index
Start ==
    /\ pcI = "start"
    /\ IF hasIndex(list, indexListed)
       THEN /\ reads' = Append(reads, INDEX_NAME)
            /\ pending' = pending \cup {INDEX_NAME}
            /\ pcI' = "awaitIndex"
            /\ result' = result
       ELSE /\ pcI' = "failed"
            /\ result' = [kind |-> "error", what |-> "missing index.json"]
            /\ UNCHANGED <<reads, pending>>
    /\ UNCHANGED <<list, indexListed, index, files, at, dict, contents>>
    /\ UNCHANGED mergeVars

\* lines 168-200: the index arrives; the format check and the classification
IndexRead(fmt) ==
    /\ pcI = "awaitIndex"
    /\ pending' = pending \ {INDEX_NAME}
    /\ index' = fmt
    /\ IF formatOk(fmt)
       THEN /\ dict' = EmptyDict
            /\ files' = classify(list)
            /\ at' = 1
            /\ pcI' = "loop"
            /\ result' = result
       ELSE /\ pcI' = "failed"
            /\ result' = [kind |-> "error", what |-> "invalid format number"]
            /\ UNCHANGED <<dict, files, at>>
    /\ UNCHANGED <<list, indexListed, reads, contents>>
    /\ UNCHANGED mergeVars

\* A loop that starts a read without awaiting the one before it.
mayIssueEarly == pcI \in {"loop", "awaitBank"} /\ at <= Len(files)

\* The loop may start the read of files[at].
mayIssue == pcI = "loop" /\ at <= Len(files)

\* lines 204-205: source.file(it.file) for the next file of the loop
IssueRead ==
    /\ mayIssue
    /\ reads' = Append(reads, files[at].file)
    /\ pending' = pending \cup {files[at].file}
    /\ pcI' = "awaitBank"
    /\ UNCHANGED <<list, indexListed, index, files, at, dict, contents, result>>
    /\ UNCHANGED mergeVars

\* lines 206-264: the file arrives and its rows are decoded and pushed
BankRead(rows) ==
    /\ pcI = "awaitBank"
    /\ files[at].file \in pending
    /\ pending' = pending \ {files[at].file}
    /\ contents' = Put(contents, files[at].file, rows)
    /\ LET r == pushRows(dict, files[at].kind, rows, 1) IN
       /\ dict' = r.dict
       /\ IF r.threw
          THEN /\ pcI' = "failed"
               /\ result' = [kind |-> "error", what |-> "TypeError"]
               /\ at' = at
          ELSE /\ pcI' = "loop"
               /\ result' = result
               /\ at' = at + 1
    /\ UNCHANGED <<list, indexListed, reads, index, files>>
    /\ UNCHANGED mergeVars

\* lines 267-268: the sort of the tags and the return
Finish ==
    /\ pcI = "loop"
    /\ at > Len(files)
    /\ dict' = [dict EXCEPT !.tags = sortBy("tags", dict.tags)]
    /\ result' = [kind |-> "dictionary", dict |-> dict']
    /\ pcI' = "done"
    /\ UNCHANGED <<list, indexListed, reads, pending, index, files, at, contents>>
    /\ UNCHANGED mergeVars

\* lines 197-200 alone
Classify ==
    /\ pcI = "start"
    /\ files' = classify(list)
    /\ pcI' = "classified"
    /\ UNCHANGED <<list, indexListed, reads, pending, index, at, dict, contents, result>>
    /\ UNCHANGED mergeVars

NextImport ==
    \/ Start
    \/ \E fmt \in Formats : IndexRead(fmt)
    \/ IssueRead
    \/ \E rows \in SeqsUpTo(Rows, MaxRows - RowsRead) : BankRead(rows)
    \/ Finish

NextClassify == Classify

\* The steps inside one dictionary and the cleanup, with references over NS.
Rewriting(NS) ==
    \/ Pass1
    \/ \E x \in NS : RewriteTerm(x)
    \/ \E x \in NS : RewriteKanjiTag(x)
    \/ \E key \in NS : RewriteKanjiStat(key)
    \/ NextKanji
    \/ EndDict
    \/ \E args \in Args : Cleanup(args)

\* Dictionaries over every name, their tags differing in the category.
NextMerge ==
    \/ \E refs \in SUBSET Names : SkipDict(refs)
    \/ \E ts \in NameTagLists(MaxSteps - steps) : StartDict(ts)
    \/ Rewriting(Names)

\* Dictionaries over one name, their tags differing in every field.
NextFields ==
    \/ \E refs \in SUBSET FieldNames : SkipDict(refs)
    \/ \E ts \in FieldTagLists(MaxSteps - steps) : StartDict(ts)
    \/ Rewriting(FieldNames)

\* The module holds both programs; each specification runs one of them and
\* leaves the other idle.
InitMergeTags == InitMerge /\ ImportIdle

SpecMerge == InitMergeTags /\ [][NextMerge]_vars

SpecFields == InitMergeTags /\ [][NextFields]_vars

SpecImport == InitImport /\ [][NextImport]_vars

SpecClassify == InitClassify /\ [][NextClassify]_vars

(***************************************************************************)
(* Properties of mergeTags.                                                *)
(***************************************************************************)
Finished == pc \in {"done", "doneE", "doneU", "doneUE"}

\* A step that is one mapTag call (Pass1 or one of the rewriting steps).
CallStep == pc \in {"pass1", "terms", "kanji"} /\ steps' = steps + 1

\* The call of the step is for a name the current dictionary has not resolved.
FirstCall == CallStep /\ last'.name \notin DOMAIN mapped

\* The candidate tag of the step's call.
CandidateOfStep == Candidate(dictTags, last'.name)

DefinedHere(tagName) == \E k \in 1..Len(dictTags) : dictTags[k].name = tagName

\* Compatibility as the specification words it.
Compatible(a, b) ==
    /\ (a.category = b.category \/ a.category = "" \/ b.category = "")
    /\ (a.description = b.description \/ a.description = "" \/ b.description = "")

\* The k-th ID of the sequence name, name-2, name-3, ...
ProbeId(tagName, k) == IF k = 1 THEN tagName ELSE tagName \o "-" \o ToString(k)

Fits(ns, tag, id) == id \notin DOMAIN ns \/ Compatible(tag, ns[id])

\* The first ID of the sequence that is free or holds a compatible tag.
FirstFit(ns, tag, tagName) ==
    LET n == Cardinality(DOMAIN ns) + 1
        k == CHOOSE k \in 1..n :
                /\ Fits(ns, tag, ProbeId(tagName, k))
                /\ \A j \in 1..(k - 1) : ~Fits(ns, tag, ProbeId(tagName, j))
    IN ProbeId(tagName, k)

\* C1: after mergeTags with the default flags every reference of every
\* dictionary of the list (rewritten or not) is a key of the returned namespace.
C1_ReferencesAreKeys ==
    pc = "done" => (written \cup unmapped) \subseteq DOMAIN tags

C4_FillNeverOverwrite ==
    [][/\ \A id \in DOMAIN tags \cap DOMAIN tags' :
             /\ tags'[id].name = tags[id].name
             /\ \A f \in Fields :
                   tags[id][f] # EmptyValue(f) => tags'[id][f] = tags[id][f]
       /\ (FirstCall /\ last'.id \in DOMAIN tags) =>
             \A f \in Fields :
                tags[last'.id][f] = EmptyValue(f)
                    => tags'[last'.id][f] = CandidateOfStep[f]]_vars

\* A candidate with another non-zero order was merged into a tag that had no
\* category: the stored order stayed and the category was filled.
C4_Witness ==
    /\ pc = "terms"
    /\ last.id \in DOMAIN tags
    /\ LET c == Candidate(dictTags, last.name)
           t == tags[last.id]
       IN /\ c.order # 0 /\ t.order # 0 /\ c.order # t.order
          /\ c.category # "" /\ t.category = c.category
          /\ t.description # "" /\ c.description = ""

\* C5: without deleteUnused every ID a definition was resolved to is a key of
\* the returned namespace.
C5_DefinedSurvive ==
    pc \in {"done", "doneE"} => defIds \subseteq DOMAIN tags

\* C6: every mapTag call of one dictionary returns, for its name, the ID the
\* first call for that name returned.
C6_Idempotent ==
    (pc \in {"pass1", "terms", "kanji"} /\ last # NoCall)
        => (last.name \in DOMAIN returned /\ last.id = returned[last.name])

\* A repeated call returned a suffixed ID again.
C6_Witness ==
    /\ last.again
    /\ last.used
    /\ last.id # last.name
    /\ last.id = returned[last.name]

\* C11: a rewritten reference points to a tag whose name is the name that
\* was referenced; two names of one dictionary never resolve to one ID, and
\* the rewritten stats of a kanji have as many keys as the original ones.
C11_NamePreserved ==
    /\ last.used => tags[last.id].name = last.name
    /\ \A n, m \in DOMAIN returned : n # m => returned[n] # returned[m]
    /\ Cardinality(mappedStats) = Cardinality(statKeys)

\* The step is the final cleanup.
CleanupStep == pc = "loop" /\ pc' \in {"done", "doneE", "doneU", "doneUE"}

\* The IDs the step removes from the namespace.
Removed == DOMAIN tags \ DOMAIN tags'

ZeroUsage == {k \in DOMAIN tags : UsageOf(tagUsage, k) = 0}

\* With deleteUnused alone the cleanup removes exactly the IDs of usage zero
\* and keeps every ID the rewriting wrote; with no flag it removes nothing.
CleanupUnusedExact ==
    [][/\ (CleanupStep /\ pc' = "doneU") =>
              (Removed = ZeroUsage /\ written \subseteq DOMAIN tags')
       /\ (CleanupStep /\ pc' = "done") => tags' = tags]_vars

\* C12: for every combination of the flags the cleanup keeps every ID the
\* rewriting wrote into a reference; with deleteUnused the IDs of usage zero
\* are removed, and no other ID unless deleteEmpty is set too; an ID removed
\* because of deleteEmpty is one no definition was resolved to.
C12_CleanupKeepsReferenced ==
    [][CleanupStep =>
        /\ written \subseteq DOMAIN tags'
        /\ pc' = "doneU" => Removed = ZeroUsage
        /\ pc' = "doneUE" => ZeroUsage \subseteq Removed
        /\ pc' = "doneE" => Removed \cap defIds = {}
        /\ pc' = "doneUE" => (Removed \ ZeroUsage) \cap defIds = {}]_vars

(***************************************************************************)
(* Properties of importSource.                                             *)
(***************************************************************************)
KindOrder == <<"kanji", "kanji_meta", "tag", "term", "term_meta">>

KindRank(kind) == CHOOSE r \in 1..Len(KindOrder) : KindOrder[r] = kind

DictLists == {"terms", "kanji", "tags", "terms_meta", "kanji_meta"}

DecodedRows(kind, rows) == [j \in 1..Len(rows) |-> decode(kind, rows[j])]

\* The records of the list L that the files fs hold in c, in the order of fs.
RECURSIVE RecordsOf(_, _, _)
RecordsOf(L, fs, c) ==
    IF fs = <<>> THEN <<>>
    ELSE LET f == fs[Len(fs)]
             rest == RecordsOf(L, SubSeq(fs, 1, Len(fs) - 1), c)
         IN IF ListOf(f.kind) = L /\ f.file \in DOMAIN c
            THEN rest \o DecodedRows(f.kind, c[f.file])
            ELSE rest

Count(q, x) == Cardinality({j \in 1..Len(q) : q[j] = x})

SameRecords(p, q) == Len(p) = Len(q) /\ \A x \in Range(p) : Count(p, x) = Count(q, x)

\* The classified files are the matching names of the listing, each once, by
\* kind and then by number (equal numbers in any order).
ClassifiedByKindThenNumber ==
    pcI = "classified" =>
        /\ {files[j].file : j \in 1..Len(files)} = {n \in Range(list) : IsBankName(n)}
        /\ Len(files) = Cardinality({n \in Range(list) : IsBankName(n)})
        /\ \A j \in 1..(Len(files) - 1) :
              \/ KindRank(files[j].kind) < KindRank(files[j + 1].kind)
              \/ /\ files[j].kind = files[j + 1].kind
                 /\ files[j].index <= files[j + 1].index

\* C7: the order in which the matching files are processed is the same for
\* every order in which the same names appear in the source listing.
C7_ListingOrderIndependent ==
    pcI = "classified" =>
        \A other \in Listings(Range(list), Len(list)) :
            Range(other) = Range(list) => classify(other) = files

\* C8: without index.json the call fails and nothing is read; with a format
\* that is not the number 3 it fails and only index.json is read, no bank
\* file is decoded; a returned Dictionary holds the records of every
\* classified bank file.
C8_FailOrComplete ==
    /\ (pcI # "start" /\ ~(INDEX_NAME \in Range(list) /\ indexListed))
          => (pcI = "failed" /\ result.kind = "error" /\ reads = <<>>)
    /\ (index # Unread /\ ~(index.t = "number" /\ index.v = FORMAT))
          => /\ pcI = "failed" /\ result.kind = "error"
             /\ reads = <<INDEX_NAME>>
             /\ dict = EmptyDict /\ contents = EmptyMap
    /\ pcI = "failed" => result.kind = "error"
    /\ result.kind = "dictionary" =>
          /\ INDEX_NAME \in Range(list) /\ indexListed
          /\ index.t = "number" /\ index.v = FORMAT
          /\ {files[j].file : j \in 1..Len(files)} = {n \in Range(list) : IsBankName(n)}
          /\ DOMAIN contents = {n \in Range(list) : IsBankName(n)}
          /\ \A L \in DictLists \ {"tags"} :
                result.dict[L] = RecordsOf(L, files, contents)
          /\ SameRecords(result.dict.tags, RecordsOf("tags", files, contents))

\* A Dictionary was returned that holds the rows of two bank files of
\* different kinds.
C8_Witness ==
    /\ result.kind = "dictionary"
    /\ Len(files) = 2
    /\ files[1].kind # files[2].kind
    /\ \A j \in 1..2 : Len(contents[files[j].file]) = 1
    /\ Len(result.dict[ListOf(files[1].kind)]) = 1
    /\ Len(result.dict[ListOf(files[2].kind)]) = 1

\* C9: a call that read a row whose arity is not the column count of the
\* kind of its file (8, 6, 5, 3) returns no Dictionary.
C9_WrongArityIsFatal ==
    result.kind = "dictionary" =>
        \A j \in 1..Len(files) :
            \A r \in 1..Len(contents[files[j].file]) :
                contents[files[j].file][r].n = Columns(files[j].kind)

\* C10: index.json is read first, then the classified files in their order,
\* each once and each a matching name of the listing; at most one read is
\* outstanding, it is the last one issued, and when it is issued the rows of
\* all the files before it have been appended, in the order of the files.
C10_SequentialReads ==
    /\ \A j \in 1..Len(reads) :
          IF j = 1 THEN reads[j] = INDEX_NAME
          ELSE /\ j - 1 <= Len(files)
               /\ reads[j] = files[j - 1].file
               /\ reads[j] \in Range(list)
               /\ IsBankName(reads[j])
    /\ \A j, k \in 1..Len(reads) : j # k => reads[j] # reads[k]
    /\ Cardinality(pending) <= 1
    /\ pending # {} => pending = {reads[Len(reads)]}
    /\ pcI \in {"loop", "awaitBank"} =>
          /\ Len(reads) = (IF pcI = "loop" THEN at ELSE at + 1)
          /\ DOMAIN contents = {files[j].file : j \in 1..(at - 1)}
          /\ \A L \in DictLists : dict[L] = RecordsOf(L, files, contents)
    /\ pcI = "done" => (Len(reads) = Len(files) + 1 /\ pending = {})

\* The read of the second bank file is outstanding and the rows of the first
\* one are in the Dictionary.
C10_Witness ==
    /\ pcI = "awaitBank"
    /\ at = 2
    /\ Len(reads) = 3
    /\ Len(contents[files[1].file]) >= 1
    /\ Len(dict[ListOf(files[1].kind)]) >= 1

====
